---- MODULE Spec2Model ----
(***************************************************************************)
(* TopsParser (src/tops_parser/parser.py): a line-oriented parser of TOPS  *)
(* pallet exports.  Text is modelled as sequences of one-character         *)
(* strings, so that strip, split, startswith, int() and float() are        *)
(* computed character by character as the Python code computes them.       *)
(***************************************************************************)
EXTENDS Integers, Sequences, FiniteSets, TLC

VARIABLES
    file_path,  \* self.file_path
    fsKind,     \* what the path resolves to: "missing", "dir", "noperm", "file"
    fsLines,    \* the lines of the file at the path (without line terminators)
    pc,         \* position of the caller: "idle", "reading", "returned", "raised"
    f,          \* the lines of the opened file that have not been read
    metadata,   \* self.metadata: a reference into heap
    heap,       \* the metadata dict objects allocated so far
    boxes,      \* self.boxes
    layers,     \* self.layers (a defaultdict: only the keys that were touched)
    stdout,     \* what print() has written
    raised,     \* the exception that ended the last call, "" when none
    returned,   \* the ParseResults handed to the caller, oldest first
    observed,   \* what the caller saw in each ParseResult when it was returned
    calls       \* number of parse() calls started

vars == <<file_path, fsKind, fsLines, pc, f, metadata, heap, boxes, layers,
          stdout, raised, returned, observed, calls>>

----------------------------------------------------------------------------
(* Bounds of the model *)

MaxLines == 3

MaxCalls == 3

MaxPath == 4

----------------------------------------------------------------------------
(* Text primitives: str.strip, str.split, str.startswith *)

\* what str.strip() without argument removes
Whitespace == {" ", "\t", "\n", "\r"}

RECURSIVE LStrip(_, _)
LStrip(s, cs) ==
    IF s # <<>> /\ Head(s) \in cs THEN LStrip(Tail(s), cs) ELSE s

RECURSIVE RStrip(_, _)
RStrip(s, cs) ==
    IF s # <<>> /\ s[Len(s)] \in cs THEN RStrip(SubSeq(s, 1, Len(s) - 1), cs) ELSE s

\* str.strip(chars): drops every leading and every trailing character of cs
Strip(s, cs) == RStrip(LStrip(s, cs), cs)

\* index of the first occurrence of character c in s, 0 when there is none
RECURSIVE FindFrom(_, _, _)
FindFrom(s, c, i) ==
    IF i > Len(s) THEN 0
    ELSE IF s[i] = c THEN i
    ELSE FindFrom(s, c, i + 1)

\* str.split(sep): always at least one part; empty parts are kept
RECURSIVE Split(_, _)
Split(s, sep) ==
    LET i == FindFrom(s, sep, 1) IN
    IF i = 0 THEN <<s>>
    ELSE <<SubSeq(s, 1, i - 1)>> \o Split(SubSeq(s, i + 1, Len(s)), sep)

StartsWith(s, p) == Len(s) >= Len(p) /\ SubSeq(s, 1, Len(p)) = p

----------------------------------------------------------------------------
(* int() and float() of a text *)

DigitVal == [c \in {"0", "1", "2", "3", "4", "5", "6", "7", "8", "9"} |->
               CASE c = "0" -> 0 [] c = "1" -> 1 [] c = "2" -> 2 [] c = "3" -> 3
                 [] c = "4" -> 4 [] c = "5" -> 5 [] c = "6" -> 6 [] c = "7" -> 7
                 [] c = "8" -> 8 [] c = "9" -> 9]

Digits == DOMAIN DigitVal

AllDigits(s) == \A i \in 1..Len(s) : s[i] \in Digits

RECURSIVE DigitsValue(_)
DigitsValue(s) ==
    IF s = <<>> THEN 0
    ELSE 10 * DigitsValue(SubSeq(s, 1, Len(s) - 1)) + DigitVal[s[Len(s)]]

Unsigned(s) == IF s # <<>> /\ Head(s) \in {"+", "-"} THEN Tail(s) ELSE s

Negative(s) == s # <<>> /\ Head(s) = "-"

\* int(s) succeeds: surrounding whitespace, one optional sign, one or more digits
IsIntText(s) ==
    LET u == Unsigned(Strip(s, Whitespace)) IN u # <<>> /\ AllDigits(u)

IntOf(s) ==
    LET t == Strip(s, Whitespace)
        v == DigitsValue(Unsigned(t))
    IN  IF Negative(t) THEN 0 - v ELSE v

\* float(s) succeeds: whitespace, optional sign, digits with at most one point and
\* at least one digit
IsFloatText(s) ==
    LET u == Unsigned(Strip(s, Whitespace))
        p == FindFrom(u, ".", 1)
        whole == IF p = 0 THEN u ELSE SubSeq(u, 1, p - 1)
        frac  == IF p = 0 THEN <<>> ELSE SubSeq(u, p + 1, Len(u))
    IN  /\ AllDigits(whole)
        /\ AllDigits(frac)
        /\ Len(whole) + Len(frac) >= 1

\* a float value m / 10^e in lowest decimal terms, so that 2, 2.0 and 2.00 are equal
RECURSIVE Normalize(_, _)
Normalize(m, e) ==
    IF e > 0 /\ m % 10 = 0 THEN Normalize(m \div 10, e - 1) ELSE [m |-> m, e |-> e]

FloatOf(s) ==
    LET t == Strip(s, Whitespace)
        u == Unsigned(t)
        p == FindFrom(u, ".", 1)
        whole == IF p = 0 THEN u ELSE SubSeq(u, 1, p - 1)
        frac  == IF p = 0 THEN <<>> ELSE SubSeq(u, p + 1, Len(u))
        n == Normalize(DigitsValue(whole \o frac), Len(frac))
    IN  IF Negative(t) THEN [m |-> 0 - n.m, e |-> n.e] ELSE n

----------------------------------------------------------------------------
(* Box and the per-line parsing of TopsParser.parse *)

ShipCaseTag == <<"[", "S", "h", "i", "p", " ", "C", "a", "s", "e", "]">>

PalletTag == <<"[", "P", "a", "l", "l", "e", "t", "]">>

EmptyDict == <<>>

\* the instance fields a parse works on, as values: md is the dict self.metadata
\* refers to, out is what was printed, err the exception that escaped ("" if none)
NewState ==
    [md |-> [ship_case |-> EmptyDict, pallet |-> EmptyDict],
     boxes |-> <<>>, layers |-> <<>>, out |-> <<>>, err |-> ""]

\* one field access with its conversion: parts[i] (0-based) read as kind t
ConvError(parts, c) ==
    IF c.i >= Len(parts) THEN "IndexError"
    ELSE IF c.t = "float" /\ ~IsFloatText(parts[c.i + 1]) THEN "ValueError"
    ELSE IF c.t = "int" /\ ~IsIntText(parts[c.i + 1]) THEN "ValueError"
    ELSE ""

\* the exception of the first failing access, in evaluation order; "" when none fails
FirstError(parts, convs) ==
    LET bad == {k \in 1..Len(convs) : ConvError(parts, convs[k]) # ""} IN
    IF bad = {} THEN ""
    ELSE ConvError(parts, convs[CHOOSE k \in bad : \A j \in bad : k <= j])

Field(parts, i) == parts[i + 1]

ShipCaseConversions ==
    <<[i |-> 1, t |-> "str"], [i |-> 2, t |-> "str"], [i |-> 3, t |-> "float"],
      [i |-> 4, t |-> "float"], [i |-> 5, t |-> "float"]>>

PalletConversions ==
    <<[i |-> 1, t |-> "str"], [i |-> 2, t |-> "float"], [i |-> 3, t |-> "float"],
      [i |-> 4, t |-> "float"]>>

BoxConversions ==
    <<[i |-> 0, t |-> "int"], [i |-> 1, t |-> "float"], [i |-> 2, t |-> "float"],
      [i |-> 3, t |-> "float"], [i |-> 4, t |-> "int"]>>

\* line.strip('[]').split(',')
MetadataParts(line) == Split(Strip(line, {"[", "]"}), ",")

ShipCaseRecord(parts) ==
    [name   |-> Strip(Field(parts, 1), {"\""}),
     spec   |-> Strip(Field(parts, 2), {"\""}),
     length |-> FloatOf(Field(parts, 3)),
     width  |-> FloatOf(Field(parts, 4)),
     height |-> FloatOf(Field(parts, 5))]

PalletRecord(parts) ==
    [name   |-> Strip(Field(parts, 1), {"\""}),
     length |-> FloatOf(Field(parts, 2)),
     width  |-> FloatOf(Field(parts, 3)),
     height |-> FloatOf(Field(parts, 4))]

\* a slip: an earlier [Ship Case] record is kept
ShipCaseStepKeepFirst(st, line) ==
    LET parts == MetadataParts(line)
        e == FirstError(parts, ShipCaseConversions)
    IN  IF e = ""
        THEN (IF st.md.ship_case = EmptyDict
              THEN [st EXCEPT !.md.ship_case = ShipCaseRecord(parts)]
              ELSE st)
        ELSE [st EXCEPT !.err = e]

\* a [Ship Case] line: the record replaces metadata['ship_case'], or the
\* exception of the first failing field escapes parse()
ShipCaseStep(st, line) ==
    LET parts == MetadataParts(line)
        e == FirstError(parts, ShipCaseConversions)
    IN  IF e = "" THEN [st EXCEPT !.md.ship_case = ShipCaseRecord(parts)]
        ELSE [st EXCEPT !.err = e]

\* a slip: a malformed [Pallet] line is skipped with a warning, like a box line
PalletStepSkipping(st, line) ==
    LET parts == MetadataParts(line)
        e == FirstError(parts, PalletConversions)
    IN  IF e = "" THEN [st EXCEPT !.md.pallet = PalletRecord(parts)]
        ELSE [st EXCEPT !.out = Append(@, <<"Warning: Could not parse line: ", line>>)]

PalletStep(st, line) ==
    LET parts == MetadataParts(line)
        e == FirstError(parts, PalletConversions)
    IN  IF e = "" THEN [st EXCEPT !.md.pallet = PalletRecord(parts)]
        ELSE [st EXCEPT !.err = e]

\* line.strip(",").split(",")
BoxParts(line) == Split(Strip(line, {","}), ",")

\* a slip: the layer is forced into the documented range
MakeBoxClamped(parts) ==
    [layer       |-> IF IntOf(Field(parts, 0)) < 1 THEN 1 ELSE IntOf(Field(parts, 0)),
     x           |-> FloatOf(Field(parts, 1)),
     y           |-> FloatOf(Field(parts, 2)),
     z           |-> FloatOf(Field(parts, 3)),
     orientation |-> IntOf(Field(parts, 4))]

MakeBox(parts) ==
    [layer       |-> IntOf(Field(parts, 0)),
     x           |-> FloatOf(Field(parts, 1)),
     y           |-> FloatOf(Field(parts, 2)),
     z           |-> FloatOf(Field(parts, 3)),
     orientation |-> IntOf(Field(parts, 4))]

\* a slip: the bucket is assigned the new box instead of being appended to
LayersAppendOverwrite(ls, box) ==
    [k \in DOMAIN ls \cup {box.layer} |-> IF k = box.layer THEN <<box>> ELSE ls[k]]

\* self.layers[box.layer].append(box) on a defaultdict(list)
LayersAppend(ls, box) ==
    [k \in DOMAIN ls \cup {box.layer} |->
        IF k = box.layer
        THEN (IF k \in DOMAIN ls THEN Append(ls[k], box) ELSE <<box>>)
        ELSE ls[k]]

Warning(line) == <<"Warning: Could not parse line: ", line>>

\* the try block of a box line: the Box is built before anything is appended; a
\* ValueError prints the warning; a line of fewer than 5 parts does nothing
BoxStep(st, line) ==
    LET parts == BoxParts(line) IN
    IF Len(parts) >= 5
    THEN IF FirstError(parts, BoxConversions) = ""
         THEN [st EXCEPT !.boxes = Append(@, MakeBox(parts)),
                         !.layers = LayersAppend(@, MakeBox(parts))]
         ELSE [st EXCEPT !.out = Append(@, Warning(line))]
    ELSE st

\* the dispatch of one stripped line, first match wins
LineKind(line) ==
    IF line = <<>> THEN "blank"
    ELSE IF StartsWith(line, ShipCaseTag) THEN "ship_case"
    ELSE IF StartsWith(line, PalletTag) THEN "pallet"
    ELSE "box"

\* one iteration of `for line in f`
ProcessLine(st, raw) ==
    LET line == Strip(raw, Whitespace)
        kind == LineKind(line)
    IN  CASE kind = "blank" -> st
          [] kind = "ship_case" -> ShipCaseStep(st, line)
          [] kind = "pallet" -> PalletStep(st, line)
          [] kind = "box" -> BoxStep(st, line)

\* the whole loop, stopped by the first exception that escapes
RECURSIVE RunLines(_, _)
RunLines(st, lines) ==
    IF lines = <<>> \/ st.err # "" THEN st
    ELSE RunLines(ProcessLine(st, Head(lines)), Tail(lines))

----------------------------------------------------------------------------
(* pallet_id and the returned dict *)

RECURSIVE LastIndexOf(_, _, _)
LastIndexOf(s, c, i) ==
    IF i = 0 THEN 0
    ELSE IF s[i] = c THEN i
    ELSE LastIndexOf(s, c, i - 1)

\* os.path.basename: what follows the last "/"
Basename(path) == SubSeq(path, LastIndexOf(path, "/", Len(path)) + 1, Len(path))

\* a slip: only the last extension is dropped, as os.path.splitext does
PalletIdSplitext(path) ==
    LET b == Basename(path)
        i == LastIndexOf(b, ".", Len(b))
    IN  IF i = 0 THEN b ELSE SubSeq(b, 1, i - 1)

\* os.path.basename(self.file_path).split(".")[0]
PalletId(path) == Split(Basename(path), ".")[1]

ToDict(box) ==
    [layer |-> box.layer, x |-> box.x, y |-> box.y, z |-> box.z,
     orientation |-> box.orientation]

ToDicts(bs) == [i \in 1..Len(bs) |-> ToDict(bs[i])]

\* the dict parse() returns; "metadata" is whatever the caller passes for self.metadata
ParseResult(path, md, bs, ls) ==
    [pallet_id |-> PalletId(path),
     metadata  |-> md,
     boxes     |-> ToDicts(bs),
     layers    |-> [k \in DOMAIN ls |-> ToDicts(ls[k])]]

\* a slip: os.path.isfile in place of os.path.exists
ExistsIsFile(kind) == kind \in {"file", "noperm"}

\* os.path.exists: true of a directory and of an unreadable file as well
Exists(kind) == kind # "missing"

\* what open(path, 'r') raises, "" when it opens
OpenError(kind) ==
    CASE kind = "file" -> ""
      [] kind = "dir" -> "IsADirectoryError"
      [] kind = "noperm" -> "PermissionError"
      [] kind = "missing" -> "FileNotFoundError"

----------------------------------------------------------------------------
(* Input files: lines written field by field and joined with commas *)

RECURSIVE Join(_)
Join(fields) ==
    IF Len(fields) = 1 THEN fields[1]
    ELSE fields[1] \o <<",">> \o Join(Tail(fields))

Quoted(s) == <<"\"">> \o s \o <<"\"">>

N0 == <<"0">>
N1 == <<"1">>
N2 == <<"2">>
N5 == <<"5">>
Neg1 == <<"-", "1">>
F15 == <<"1", ".", "5">>
F20 == <<"2", ".", "0">>
Word == <<"a">>
None == <<>>

BoxLines ==
    { Join(<<N1, F15, N2, F20, N0, None>>),        \* 1,1.5,2,2.0,0,
      Join(<<N2, F15, N2, F20, N1>>),              \* 2,1.5,2,2.0,1
      Join(<<N1, Neg1, N2, N2, N0, None>>),        \* 1,-1,2,2,0,
      Join(<<N2, N1, N2, N2, N0, N5, Word>>),      \* 2,1,2,2,0,5,a
      Join(<<N0, N1, N2, N2, N5>>),                \* 0,1,2,2,5
      Join(<<Neg1, N1, N2, N2, Neg1, None>>),      \* -1,1,2,2,-1,
      <<" ">> \o Join(<<N1, N1, N2, N2, N1, None>>) \o <<" ">> }

BadBoxLines ==
    { Join(<<N1, Word, N2, F20, N0, None>>),       \* 1,a,2,2.0,0,
      Join(<<F15, N1, N2, N2, N0>>),               \* 1.5,1,2,2,0
      Join(<<N1, N1, N2, N2, Word>>),              \* 1,1,2,2,a
      Join(<<N1, F15, N2>>),                       \* 1,1.5,2
      Join(<<N1, N2, N2, N2, None, None>>),        \* 1,2,2,2,,
      Join(<<None, N1, F20, N2, F15, N0>>) }       \* ,1,2.0,2,1.5,0

BlankLines == { <<>>, <<" ">> }

ShipCaseLine(fields) == ShipCaseTag \o <<",">> \o Join(fields)

PalletLine(fields) == PalletTag \o <<",">> \o Join(fields)

GoodMetadataLines ==
    { ShipCaseLine(<<Quoted(None), Quoted(<<"R">>), F15, N2, F20>>),
      ShipCaseLine(<<Quoted(Word), Quoted(<<"R">>), N2, N2, N5>>),
      PalletLine(<<Quoted(<<"P">>), N1, N2, N5>>),
      PalletLine(<<Quoted(<<"Q">>), F20, N2, F15>>) }

BadMetadataLines ==
    { ShipCaseLine(<<Quoted(Word), Quoted(<<"R">>), N2, N2>>),
      ShipCaseLine(<<Quoted(Word), Quoted(<<"R">>), Word, N2, N2>>),
      ShipCaseLine(<<Quoted(Word)>>),
      PalletLine(<<Quoted(<<"P">>), N1, N2>>),
      PalletLine(<<Quoted(<<"P">>), N1, Word, N2>>),
      PalletTag }

\* a last field that ends in a bracket: 5] is no number as written
BracketLines ==
    { PalletLine(<<Quoted(<<"P">>), N1, N2, N5 \o <<"]">>>>),
      ShipCaseLine(<<Quoted(Word), Quoted(<<"R">>), N2, N2, N5 \o <<"]">>>>) }

Last(s) == s[Len(s)]

SeqsUpTo(S, n) == UNION {[1..k -> S] : k \in 0..n}

PickOne(S) == CHOOSE x \in S : TRUE

Kinds == {"missing", "dir", "noperm", "file"}

DefaultPath == <<"d", "/", "t", ".", "x">>

----------------------------------------------------------------------------
(* The instance and the calls of parse() *)

\* TopsParser.__init__
InitInstance ==
    /\ metadata = 1
    /\ heap = <<NewState.md>>
    /\ boxes = <<>>
    /\ layers = <<>>

InitWith(paths, kinds, files) ==
    /\ file_path \in paths
    /\ fsKind \in kinds
    /\ fsLines \in (IF fsKind = "file" THEN files ELSE {<<>>})
    /\ InitInstance
    /\ pc = "idle"
    /\ f = <<>>
    /\ stdout = <<>>
    /\ raised = ""
    /\ returned = <<>>
    /\ observed = <<>>
    /\ calls = 0

\* the fields as a record, for the reset at the head of parse()
Fields == [metadata |-> metadata, heap |-> heap, boxes |-> boxes, layers |-> layers]

\* a slip: parse() keeps the containers of the previous call
NoReset(st) == st

\* parse() rebinds self.metadata to a new dict, self.boxes and self.layers to new
\* empty containers
ResetState(st) ==
    [metadata |-> Len(st.heap) + 1,
     heap     |-> Append(st.heap, NewState.md),
     boxes    |-> <<>>,
     layers   |-> <<>>]

SetFields(st) ==
    /\ metadata' = st.metadata
    /\ heap' = st.heap
    /\ boxes' = st.boxes
    /\ layers' = st.layers

\* the path does not exist: FileNotFoundError before anything is touched
ParseNotFound ==
    /\ pc = "idle"
    /\ ~Exists(fsKind)
    /\ pc' = "raised"
    /\ raised' = "FileNotFoundError"
    /\ calls' = calls + 1
    /\ UNCHANGED <<file_path, fsKind, fsLines, f, metadata, heap, boxes, layers,
                   stdout, returned, observed>>

\* the path exists but open() fails: the fields are already reset
ParseOpenFails ==
    /\ pc = "idle"
    /\ Exists(fsKind)
    /\ OpenError(fsKind) # ""
    /\ SetFields(ResetState(Fields))
    /\ pc' = "raised"
    /\ raised' = OpenError(fsKind)
    /\ calls' = calls + 1
    /\ UNCHANGED <<file_path, fsKind, fsLines, f, stdout, returned, observed>>

ParseOpen ==
    /\ pc = "idle"
    /\ Exists(fsKind)
    /\ OpenError(fsKind) = ""
    /\ SetFields(ResetState(Fields))
    /\ f' = fsLines
    /\ pc' = "reading"
    /\ raised' = ""
    /\ calls' = calls + 1
    /\ UNCHANGED <<file_path, fsKind, fsLines, stdout, returned, observed>>

CurState ==
    [md |-> heap[metadata], boxes |-> boxes, layers |-> layers, out |-> stdout,
     err |-> ""]

CurLine == Strip(Head(f), Whitespace)

\* the effect of one loop iteration on the instance; an escaping exception leaves
\* the with block (the file is closed, what is left of it is never read)
Commit(st) ==
    /\ heap' = [heap EXCEPT ![metadata] = st.md]
    /\ boxes' = st.boxes
    /\ layers' = st.layers
    /\ stdout' = st.out
    /\ f' = Tail(f)
    /\ IF st.err = ""
       THEN pc' = pc /\ raised' = raised
       ELSE pc' = "raised" /\ raised' = st.err
    /\ UNCHANGED <<file_path, fsKind, fsLines, metadata, returned, observed, calls>>

LineBlank ==
    /\ pc = "reading" /\ f # <<>>
    /\ LineKind(CurLine) = "blank"
    /\ Commit(CurState)

LineShipCase ==
    /\ pc = "reading" /\ f # <<>>
    /\ LineKind(CurLine) = "ship_case"
    /\ Commit(ShipCaseStep(CurState, CurLine))

LinePallet ==
    /\ pc = "reading" /\ f # <<>>
    /\ LineKind(CurLine) = "pallet"
    /\ Commit(PalletStep(CurState, CurLine))

LineBox ==
    /\ pc = "reading" /\ f # <<>>
    /\ LineKind(CurLine) = "box"
    /\ Commit(BoxStep(CurState, CurLine))

\* a ParseResult as the caller holds it: its metadata is a dict object
Deref(r) == [r EXCEPT !.metadata = heap[r.metadata]]

ParseReturn ==
    /\ pc = "reading" /\ f = <<>>
    /\ returned' = Append(returned, ParseResult(file_path, metadata, boxes, layers))
    /\ observed' = Append(observed,
                     [content |-> fsLines,
                      value |-> ParseResult(file_path, heap[metadata], boxes, layers)])
    /\ pc' = "returned"
    /\ UNCHANGED <<file_path, fsKind, fsLines, f, metadata, heap, boxes, layers,
                   stdout, raised, calls>>

\* between two calls the file at the path is rewritten, removed or replaced
Rewrite(kind, lines) ==
    /\ pc \in {"returned", "raised"}
    /\ calls < MaxCalls
    /\ fsKind' = kind
    /\ fsLines' = lines
    /\ pc' = "idle"
    /\ UNCHANGED <<file_path, f, metadata, heap, boxes, layers, stdout, raised,
                   returned, observed, calls>>

Next ==
    \/ ParseNotFound
    \/ ParseOpenFails
    \/ ParseOpen
    \/ LineBlank
    \/ LineShipCase
    \/ LinePallet
    \/ LineBox
    \/ ParseReturn

\* files of box lines, with the metadata lines of the test fixture
BoxFileLines ==
    BoxLines \cup BadBoxLines \cup BlankLines
    \cup { PickOne({l \in GoodMetadataLines : StartsWith(l, ShipCaseTag)}),
           PickOne({l \in GoodMetadataLines : StartsWith(l, PalletTag)}) }

Init == InitWith({DefaultPath}, Kinds, SeqsUpTo(BoxFileLines, MaxLines))

Spec == Init /\ [][Next]_vars

\* files of metadata lines around a few box lines
MetaFileLines ==
    GoodMetadataLines \cup BadMetadataLines \cup BracketLines
    \cup { Join(<<N1, F15, N2, F20, N0, None>>), Join(<<N2, F15, N2, F20, N1>>),
           Join(<<N1, Word, N2, F20, N0, None>>), <<>> }

InitMeta == InitWith({DefaultPath}, Kinds, SeqsUpTo(MetaFileLines, MaxLines))

SpecMeta == InitMeta /\ [][Next]_vars

\* paths over a small alphabet, and the path of the pallet_id example
PathChars == {"/", ".", "a", "b"}

DottedPath == <<"d", ".", "v", "/", "a", ".", "b", ".", "t">>

Paths == SeqsUpTo(PathChars, MaxPath) \cup {DottedPath, DefaultPath}

\* a path that can only name a directory, if it names anything
NamesDirectory(path) ==
    \/ path # <<>> /\ Last(path) = "/"
    \/ Basename(path) \in {<<".">>, <<".", ".">>}

PathFiles ==
    { <<>>,
      <<ShipCaseLine(<<Quoted(None), Quoted(<<"R">>), F15, N2, F20>>),
        PalletLine(<<Quoted(<<"P">>), N1, N2, N5>>),
        Join(<<N1, F15, N2, F20, N0, None>>)>>,
      << <<" ">>, Join(<<N1, Word, N2, F20, N0, None>>)>> }

InitPath ==
    /\ InitWith(Paths, Kinds, PathFiles)
    /\ file_path = <<>> => fsKind = "missing"
    /\ NamesDirectory(file_path) => fsKind \in {"missing", "dir"}

SpecPath == InitPath /\ [][Next]_vars

\* the files one instance parses in turn
ReuseFiles ==
    { <<>>,
      <<ShipCaseLine(<<Quoted(None), Quoted(<<"R">>), F15, N2, F20>>),
        Join(<<N1, F15, N2, F20, N0, None>>)>>,
      <<Join(<<N2, F15, N2, F20, N1>>), PalletLine(<<Quoted(<<"P">>), N1, N2>>),
        Join(<<N1, F15, N2, F20, N0, None>>)>>,
      <<Join(<<N1, Word, N2, F20, N0, None>>), <<>>, Join(<<N2, F15, N2, F20, N1>>)>>,
      <<PalletLine(<<Quoted(<<"P">>), N1, N2, N5>>),
        Join(<<N1, Neg1, N2, N2, N0, None>>)>> }

InitReuse == InitWith({DefaultPath}, Kinds, ReuseFiles)

NextReuse ==
    \/ Next
    \/ \E kind \in Kinds :
         \E lines \in (IF kind = "file" THEN ReuseFiles ELSE {<<>>}) :
            Rewrite(kind, lines)

SpecReuse == InitReuse /\ [][NextReuse]_vars

----------------------------------------------------------------------------
(* Properties of one parse() call on files of box lines (Spec) *)

RECURSIVE SumLen(_, _)
SumLen(fn, keys) ==
    IF keys = {} THEN 0
    ELSE LET k == CHOOSE x \in keys : TRUE IN Len(fn[k]) + SumLen(fn, keys \ {k})

\* ls is the partition of bs by the layer field, in the order of bs, without
\* empty buckets
IsPartition(bs, ls) ==
    /\ DOMAIN ls = {bs[i].layer : i \in 1..Len(bs)}
    /\ \A k \in DOMAIN ls :
         LET InLayer(b) == b.layer = k IN
         /\ ls[k] # <<>>
         /\ ls[k] = SelectSeq(bs, InLayer)
    /\ SumLen(ls, DOMAIN ls) = Len(bs)

\* C1: after every processed line (skipped ones included) self.layers is exactly
\* the partition of self.boxes by layer, each bucket in the order of boxes and none
\* empty, and so are layers and boxes of every returned ParseResult.
C1_LayersPartitionBoxes ==
    /\ IsPartition(boxes, layers)
    /\ \A i \in 1..Len(returned) : IsPartition(returned[i].boxes, returned[i].layers)

\* a returned result of three boxes, the two of one layer apart in boxes and
\* different, a box of another layer between them
C1_Witness ==
    /\ pc = "returned"
    /\ Len(Last(returned).boxes) = 3
    /\ Last(returned).boxes[1].layer = Last(returned).boxes[3].layer
    /\ Last(returned).boxes[1].layer # Last(returned).boxes[2].layer
    /\ Last(returned).boxes[1] # Last(returned).boxes[3]

\* the comma-separated fields of a line as it is written
FieldsAsWritten(raw) == Split(Strip(raw, Whitespace), ",")

\* a box line of at least 5 fields, fields 0 and 4 integers, fields 1..3 numbers
WellFormedAsWritten(raw) ==
    LET p == FieldsAsWritten(raw) IN
    /\ LineKind(Strip(raw, Whitespace)) = "box"
    /\ Len(p) >= 5
    /\ IsIntText(p[1]) /\ IsIntText(p[5])
    /\ IsFloatText(p[2]) /\ IsFloatText(p[3]) /\ IsFloatText(p[4])

RecordAsWritten(raw) ==
    LET p == FieldsAsWritten(raw) IN
    [layer |-> IntOf(p[1]), x |-> FloatOf(p[2]), y |-> FloatOf(p[3]),
     z |-> FloatOf(p[4]), orientation |-> IntOf(p[5])]

RecordsAsWritten(lines) ==
    LET good == SelectSeq(lines, WellFormedAsWritten) IN
    [i \in 1..Len(good) |-> RecordAsWritten(good[i])]

\* C2: the returned boxes are, in file order, exactly the records of the box lines
\* that are well formed as written; every other box line and every blank line
\* contributes nothing, and none of them raises.
C2_BoxesAreWellFormedLines ==
    /\ pc = "returned" => Last(returned).boxes = RecordsAsWritten(fsLines)
    /\ (pc = "raised" /\ fsKind = "file") =>
          \E i \in 1..Len(fsLines) :
              LineKind(Strip(fsLines[i], Whitespace)) \in {"ship_case", "pallet"}

C8_SkippedLineWarns ==
    [][(pc = "reading" /\ f # <<>>) =>
          IF LineKind(CurLine) = "box" /\ boxes' = boxes
          THEN stdout' = Append(stdout, Warning(CurLine))
          ELSE stdout' = stdout]_vars

\* C9: only the trailing comma is removed, so a line that starts with a comma has
\* an empty layer field and yields no box.
C9_LeadingCommaYieldsNoBox ==
    [][(pc = "reading" /\ f # <<>> /\ CurLine # <<>> /\ Head(CurLine) = ",") =>
          (boxes' = boxes /\ layers' = layers)]_vars

\* C10 as claimed: every returned box has layer >= 1 and orientation 0 or 1.
C10_LayerAndOrientationInRange ==
    \A i \in 1..Len(returned) : \A j \in 1..Len(returned[i].boxes) :
        /\ returned[i].boxes[j].layer >= 1
        /\ returned[i].boxes[j].orientation \in {0, 1}

\* C10 (amended): layer and orientation of a returned box are integers of any
\* range: a box line well formed as written yields the box with the integer values
\* of its fields 0 and 4, in boxes and in the bucket of that layer, also when the
\* layer is 0 or negative or the orientation is neither 0 nor 1.
C10_LayerAndOrientationAsWritten ==
    pc = "returned" =>
        /\ \A j \in 1..Len(Last(returned).boxes) :
              /\ Last(returned).boxes[j].layer \in Int
              /\ Last(returned).boxes[j].orientation \in Int
        /\ \A i \in 1..Len(fsLines) :
              WellFormedAsWritten(fsLines[i]) =>
                  LET b == RecordAsWritten(fsLines[i]) IN
                  /\ \E j \in 1..Len(Last(returned).boxes) : Last(returned).boxes[j] = b
                  /\ b.layer \in DOMAIN Last(returned).layers
                  /\ \E j \in 1..Len(Last(returned).layers[b.layer]) :
                        Last(returned).layers[b.layer][j] = b

\* a returned box of layer 0 and one of negative layer and orientation
C10_Witness ==
    /\ pc = "returned"
    /\ \E j \in 1..Len(Last(returned).boxes) :
          Last(returned).boxes[j].layer = 0 /\ Last(returned).boxes[j].orientation = 5
    /\ \E j \in 1..Len(Last(returned).boxes) :
          Last(returned).boxes[j].layer < 0 /\ Last(returned).boxes[j].orientation < 0

----------------------------------------------------------------------------
(* Properties of metadata lines (SpecMeta) *)

\* number of lines of the file read so far
LinesRead == Len(fsLines) - Len(f)

IsShipCaseLine(raw) == LineKind(Strip(raw, Whitespace)) = "ship_case"

IsPalletLine(raw) == LineKind(Strip(raw, Whitespace)) = "pallet"

IsOtherLine(raw) == ~IsShipCaseLine(raw) /\ ~IsPalletLine(raw)

\* a tagged line, given its comma-separated fields p: too few of them, or a
\* dimension field that is no number
MissesFields(raw, p) ==
    \/ /\ IsShipCaseLine(raw)
       /\ \/ Len(p) < 6
          \/ \E i \in 4..6 : ~IsFloatText(p[i])
    \/ /\ IsPalletLine(raw)
       /\ \/ Len(p) < 5
          \/ \E i \in 3..5 : ~IsFloatText(p[i])

\* malformed with the fields taken as they are written
MalformedAsWritten(raw) == MissesFields(raw, FieldsAsWritten(raw))

\* malformed with the brackets that end the line left out of its last field
MalformedSansBrackets(raw) ==
    MissesFields(raw, Split(RStrip(Strip(raw, Whitespace), {"[", "]"}), ","))

\* once line i has been read and is malformed, it is the last line read, the call
\* has raised and nothing was returned
FatalWhenRead(Malformed(_)) ==
    fsKind = "file" /\ pc # "idle" =>
        \A i \in 1..LinesRead :
            Malformed(fsLines[i]) =>
                /\ i = LinesRead
                /\ pc = "raised"
                /\ raised \in {"IndexError", "ValueError"}
                /\ returned = <<>>

\* C4 as claimed: a tagged line with too few fields, or with a dimension field
\* that is no number as written, is fatal wherever it stands.
C4_MalformedMetadataFatal == FatalWhenRead(MalformedAsWritten)

\* C4 (amended): a tagged line with too few fields, or with a dimension field that
\* is no number once the brackets ending the line are dropped, is fatal wherever it
\* stands: the call raises, returns nothing and reads no further line.
C4_MalformedMetadataFatalSansBrackets == FatalWhenRead(MalformedSansBrackets)

\* a truncated [Pallet] line after a parsed box, with a line left unread
C4_Witness ==
    /\ pc = "raised"
    /\ raised = "IndexError"
    /\ boxes # <<>>
    /\ f # <<>>
    /\ IsPalletLine(fsLines[LinesRead])

\* what a fresh instance returns for a file of these lines
FreshResult(path, lines) ==
    LET st == RunLines(NewState, lines) IN ParseResult(path, st.md, st.boxes, st.layers)

LastRecord(lines, Record(_)) ==
    IF lines = <<>> THEN EmptyDict
    ELSE Record(MetadataParts(Strip(Last(lines), Whitespace)))

\* the same lines with the metadata lines moved to the front, or to the back
MetadataFirst(lines) ==
    SelectSeq(lines, IsShipCaseLine) \o SelectSeq(lines, IsPalletLine)
        \o SelectSeq(lines, IsOtherLine)

MetadataLast(lines) ==
    SelectSeq(lines, IsOtherLine) \o SelectSeq(lines, IsPalletLine)
        \o SelectSeq(lines, IsShipCaseLine)

\* C5: each metadata record of a returned result is the record of the last line
\* with its tag, the empty record when no line has the tag, and the result is the
\* one of the file with its metadata lines moved before or after the other lines.
C5_LastMetadataLineWins ==
    pc = "returned" =>
        LET r == Deref(Last(returned)) IN
        /\ r.metadata.ship_case
             = LastRecord(SelectSeq(fsLines, IsShipCaseLine), ShipCaseRecord)
        /\ r.metadata.pallet = LastRecord(SelectSeq(fsLines, IsPalletLine), PalletRecord)
        /\ r = FreshResult(file_path, MetadataFirst(fsLines))
        /\ r = FreshResult(file_path, MetadataLast(fsLines))

\* two different [Ship Case] lines around a box line, and no [Pallet] line
C5_Witness ==
    /\ pc = "returned"
    /\ Len(fsLines) = 3
    /\ IsShipCaseLine(fsLines[1]) /\ IsShipCaseLine(fsLines[3])
    /\ fsLines[1] # fsLines[3]
    /\ Len(Last(returned).boxes) = 1
    /\ Deref(Last(returned)).metadata.pallet = EmptyDict

----------------------------------------------------------------------------
(* pallet_id (SpecPath) *)

\* id is the base name of path cut at its first dot
IsBaseNameCutAtFirstDot(id, path) ==
    \E d \in 0..Len(path) :
        /\ d = 0 \/ path[d] = "/"
        /\ \A j \in (d + 1)..Len(path) : path[j] # "/"
        /\ Len(id) <= Len(path) - d
        /\ id = SubSeq(path, d + 1, d + Len(id))
        /\ \A j \in 1..Len(id) : id[j] # "."
        /\ d + Len(id) = Len(path) \/ path[d + Len(id) + 1] = "."

\* C6: pallet_id of every returned result is the base name of the path cut at its
\* first dot; dots of directory components play no part.
C6_PalletIdIsBaseNameStem ==
    \A i \in 1..Len(returned) : IsBaseNameCutAtFirstDot(returned[i].pallet_id, file_path)

\* the result for d.v/a.b.t, whose pallet_id is a
C6_Witness ==
    /\ pc = "returned"
    /\ file_path = DottedPath
    /\ Last(returned).pallet_id = <<"a">>

----------------------------------------------------------------------------
(* Reuse of one instance (SpecReuse) *)

\* C7: every result returned by a reused instance is the one a fresh instance
\* returns for the same path and content, and a result stays as the caller
\* received it whatever calls follow.
C7_NoStateCarriesOver ==
    \A i \in 1..Len(returned) :
        /\ observed[i].value = FreshResult(file_path, observed[i].content)
        /\ Deref(returned[i]) = observed[i].value

\* three calls, one of them failed, the two results with boxes and different
C7_Witness ==
    /\ pc = "returned"
    /\ calls = 3
    /\ Len(returned) = 2
    /\ observed[1].value.boxes # <<>>
    /\ observed[2].value.boxes # <<>>
    /\ observed[1].value # observed[2].value
    /\ observed[1].value.metadata # observed[2].value.metadata

====
